---- MODULE Spec2Model ----
(***************************************************************************)
(* A model of .github/workflows/check_spdx_identifiers.py: the function    *)
(* check(root), which walks root.rglob("*"), skips directories and ignored *)
(* paths, reads the first (post-shebang) line of every other file and      *)
(* reports the files whose line lacks the SPDX marker; and the entry point *)
(* sys.exit(check(Path.cwd())).                                            *)
(*                                                                         *)
(* A path is the tuple of its segments (pathlib's path.parts), a file's    *)
(* content is its text as a string, and standard output is the sequence of *)
(* printed lines.                                                          *)
(***************************************************************************)
EXTENDS Integers, Sequences, FiniteSets, TLC

VARIABLES root, tree, pc, i, problems_found, out, opened, ret, exitCode, run, history

vars == <<root, tree, pc, i, problems_found, out, opened, ret, exitCode, run, history>>

(***************************************************************************)
(* Bounds of the model.                                                    *)
(***************************************************************************)
\* the largest number of regular files in the scanned tree
MaxFiles == 2
\* the largest number of successive calls of check in one process
MaxRuns == 2

(***************************************************************************)
(* Program constants.                                                      *)
(***************************************************************************)
SPDX_IDENT == "SPDX-License-Identifier: "

ignored == << ".git", ".gitmodules", ".gitignore",
              "LICENSE",
              "zig-out", ".zig-cache",
              "third-party" >>

\* the f-string printed before the first violation
Header == "Files found without \"" \o SPDX_IDENT \o "\" in the first line:"

(***************************************************************************)
(* Strings.                                                                *)
(***************************************************************************)
\* Python's  sub in s  on strings
Contains(sub, s) ==
    \E k \in 1..(Len(s) - Len(sub) + 1) : SubSeq(s, k, k + Len(sub) - 1) = sub

\* Python's  s.startswith(prefix)
StartsWith(s, prefix) ==
    /\ Len(s) >= Len(prefix)
    /\ SubSeq(s, 1, Len(prefix)) = prefix

CharAt(s, p) == SubSeq(s, p, p)

\* index of the first line terminator of s at or after p, Len(s)+1 if none
RECURSIVE ScanEol(_, _)
ScanEol(s, p) ==
    IF p > Len(s) THEN p
    ELSE IF CharAt(s, p) \in {"\n", "\r"} THEN p
    ELSE ScanEol(s, p + 1)

\* f.readline() of a text-mode file (universal newlines) holding s, read
\* position p: the line (its terminator translated to "\n") and the new
\* position; the empty string at end of file
readline(s, p) ==
    LET e == ScanEol(s, p) IN
    IF e > Len(s)
    THEN [line |-> SubSeq(s, p, Len(s)), pos |-> Len(s) + 1]
    ELSE [line |-> SubSeq(s, p, e - 1) \o "\n",
          pos  |-> IF CharAt(s, e) = "\r" /\ e < Len(s) /\ CharAt(s, e + 1) = "\n"
                   THEN e + 2 ELSE e + 1]

\* the mutant: the shebang line is not skipped
FirstLineNoSkip(s) == readline(s, 1).line

\* the value of first_line after the with block
first_line(s) ==
    LET l1 == readline(s, 1) IN
    IF StartsWith(l1.line, "#!") THEN readline(s, l1.pos).line ELSE l1.line

\* the mutant: an empty line under test is let through
LacksMarkerUnlessEmpty(line) == line # "" /\ ~Contains(SPDX_IDENT, line)

\* SPDX_IDENT not in first_line
LacksMarker(line) == ~Contains(SPDX_IDENT, line)

(***************************************************************************)
(* Paths.                                                                  *)
(***************************************************************************)
RECURSIVE JoinFrom(_, _)
JoinFrom(parts, k) ==
    IF k > Len(parts) THEN ""
    ELSE IF k = Len(parts) THEN parts[k]
    ELSE parts[k] \o "/" \o JoinFrom(parts, k + 1)

\* str(path): the segments joined by "/", an absolute path's first segment
\* being the anchor "/"
PathStr(parts) ==
    IF Len(parts) >= 1 /\ parts[1] = "/"
    THEN "/" \o JoinFrom(parts, 2)
    ELSE JoinFrom(parts, 1)

\* the mutant: the ignore filter sees the path relative to root
RelParts(k) == tree[k].rel

\* path.parts of the k-th path that root.rglob("*") yields
PathParts(k) == root \o tree[k].rel

\* the mutant: a token matches as a substring of the printed path
SkipBySubstring(parts) ==
    \E t \in 1..Len(ignored) : Contains(ignored[t], PathStr(parts))

\* the mutant: only the last segment (the file's name) is tested
SkipByName(parts) ==
    \E t \in 1..Len(ignored) : Len(parts) >= 1 /\ parts[Len(parts)] = ignored[t]

\* the value of skip after the inner loop: some ignored_str in path.parts
Skip(parts) ==
    \E t \in 1..Len(ignored) : \E j \in 1..Len(parts) : parts[j] = ignored[t]

(***************************************************************************)
(* The scanned tree.  tree is the sequence of entries in the order         *)
(* root.rglob("*") yields them; an entry is a directory or a file with its *)
(* text, err telling whether reading it fails ("raises": open() raises on  *)
(* a permission, a broken symlink or a deleted file, or readline() raises  *)
(* on undecodable bytes).                                                  *)
(***************************************************************************)
Roots == { << "/", "work" >>,
           << "/", "home", "u", "third-party", "proj" >> }

RelPaths == { << "a.py" >>,
              << ".git", "config" >>,
              << "src", "LICENSE" >>,
              << "third-party-old", "x.c" >>,
              << "LICENSE.txt" >> }

Contents == { "# SPDX-License-Identifier: MIT\n",
              "# no license here\n",
              "",
              "#!/bin/sh\r\n# SPDX-License-Identifier: MIT\r\n",
              "#!/bin/sh",
              "#!/bin/sh SPDX-License-Identifier: MIT\n\n# SPDX-License-Identifier: MIT\n" }

Errors == { "raises" }

Files ==
    { [rel |-> p, dir |-> FALSE, content |-> c, err |-> "none"] :
          p \in RelPaths, c \in Contents }
    \cup
    { [rel |-> p, dir |-> FALSE, content |-> "", err |-> e] :
          p \in RelPaths, e \in Errors }

DirEntry(d) == [rel |-> d, dir |-> TRUE, content |-> "", err |-> "none"]

\* sequences of at most MaxFiles files with pairwise different paths
FileSeqs ==
    { fs \in UNION { [1..n -> Files] : n \in 0..MaxFiles } :
          \A a, b \in DOMAIN fs : a # b => fs[a].rel # fs[b].rel }

\* rel lies below the directory dir
IsUnder(rel, dir) == Len(rel) > Len(dir) /\ SubSeq(rel, 1, Len(dir)) = dir

\* the entries of the directory dir of the tree that holds the files fs, in
\* the order the directory lists them (the order in which fs first names
\* them): a file of fs, or the subdirectory that leads to one
RECURSIVE ChildEntries(_, _, _, _)
ChildEntries(dir, fs, k, seen) ==
    IF k > Len(fs) THEN << >>
    ELSE IF ~IsUnder(fs[k].rel, dir) THEN ChildEntries(dir, fs, k + 1, seen)
    ELSE LET c == SubSeq(fs[k].rel, 1, Len(dir) + 1) IN
         IF c \in seen THEN ChildEntries(dir, fs, k + 1, seen)
         ELSE << (IF c = fs[k].rel THEN fs[k] ELSE DirEntry(c)) >>
                  \o ChildEntries(dir, fs, k + 1, seen \cup {c})

\* what root.rglob("*") yields below dir: every entry of dir first, then,
\* for each subdirectory of dir in the same order, what it yields below it
RECURSIVE Listing(_, _)
RECURSIVE Descend(_, _, _)
Descend(ch, j, fs) ==
    IF j > Len(ch) THEN << >>
    ELSE (IF ch[j].dir THEN Listing(ch[j].rel, fs) ELSE << >>)
             \o Descend(ch, j + 1, fs)

Listing(dir, fs) ==
    LET ch == ChildEntries(dir, fs, 1, {}) IN ch \o Descend(ch, 1, fs)

(***************************************************************************)
(* State:                                                                  *)
(*   root, tree      the argument of check and the tree under it           *)
(*   pc              "main" before the call, "loop" in the for loop,       *)
(*                   "returned", "raised" (an exception left check),       *)
(*                   "exited", "crashed"                                   *)
(*   i               the index in tree of the path the loop is at          *)
(*   problems_found  the local counter                                     *)
(*   out             the lines this call printed to standard output        *)
(*   opened          the paths this call passed to open()                  *)
(*   ret             << >>, or the one value check returned                *)
(*   exitCode        the process exit code, -1 while the process runs      *)
(*   run             the number of calls of check so far                   *)
(*   history         the output and value of every earlier completed call  *)
(***************************************************************************)
Init ==
    /\ root \in Roots
    /\ \E fs \in FileSeqs : tree = Listing(<< >>, fs)
    /\ pc = "main"
    /\ i = 0
    /\ problems_found = 0
    /\ out = << >>
    /\ opened = {}
    /\ ret = << >>
    /\ exitCode = -1
    /\ run = 0
    /\ history = << >>

\* the mutant: the counter is kept from one call to the next
CallCheckKeepCounter ==
    /\ pc \in {"main", "returned"}
    /\ run < MaxRuns
    /\ run' = run + 1
    /\ history' = IF pc = "returned"
                  THEN Append(history, [out |-> out, ret |-> ret[1]])
                  ELSE history
    /\ i' = 1
    /\ out' = << >>
    /\ opened' = {}
    /\ ret' = << >>
    /\ pc' = "loop"
    /\ UNCHANGED <<root, tree, exitCode, problems_found>>

\* check(root) is called: problems_found = 0 and the loop starts.  A call
\* that follows a completed call files that call's output and value.
CallCheck ==
    /\ pc \in {"main", "returned"}
    /\ run < MaxRuns
    /\ run' = run + 1
    /\ history' = IF pc = "returned"
                  THEN Append(history, [out |-> out, ret |-> ret[1]])
                  ELSE history
    /\ problems_found' = 0
    /\ i' = 1
    /\ out' = << >>
    /\ opened' = {}
    /\ ret' = << >>
    /\ pc' = "loop"
    /\ UNCHANGED <<root, tree, exitCode>>

\* if path.is_dir(): continue
SkipDir ==
    /\ pc = "loop"
    /\ i <= Len(tree)
    /\ tree[i].dir
    /\ i' = i + 1
    /\ UNCHANGED <<root, tree, pc, problems_found, out, opened, ret, exitCode, run, history>>

\* if skip: continue
SkipIgnored ==
    /\ pc = "loop"
    /\ i <= Len(tree)
    /\ ~tree[i].dir
    /\ Skip(PathParts(i))
    /\ i' = i + 1
    /\ UNCHANGED <<root, tree, pc, problems_found, out, opened, ret, exitCode, run, history>>

\* the mutant: the header is printed before every violation
CheckFileHeaderEachTime ==
    /\ pc = "loop"
    /\ i <= Len(tree)
    /\ ~tree[i].dir
    /\ ~Skip(PathParts(i))
    /\ tree[i].err = "none"
    /\ opened' = opened \cup { PathParts(i) }
    /\ IF LacksMarker(first_line(tree[i].content))
       THEN /\ out' = out \o << Header, PathStr(PathParts(i)) >>
            /\ problems_found' = problems_found + 1
       ELSE UNCHANGED <<out, problems_found>>
    /\ i' = i + 1
    /\ UNCHANGED <<root, tree, pc, ret, exitCode, run, history>>

\* the rest of the loop body for a file that opens and reads: the line
\* under test, the marker test, the header before the first violation, the
\* counter and the path
CheckFile ==
    /\ pc = "loop"
    /\ i <= Len(tree)
    /\ ~tree[i].dir
    /\ ~Skip(PathParts(i))
    /\ tree[i].err = "none"
    /\ opened' = opened \cup { PathParts(i) }
    /\ IF LacksMarker(first_line(tree[i].content))
       THEN /\ out' = (IF problems_found = 0 THEN Append(out, Header) ELSE out)
                          \o << PathStr(PathParts(i)) >>
            /\ problems_found' = problems_found + 1
       ELSE UNCHANGED <<out, problems_found>>
    /\ i' = i + 1
    /\ UNCHANGED <<root, tree, pc, ret, exitCode, run, history>>

\* the mutant: an unreadable file is reported as a violation and the scan
\* goes on
ReadFailSoft ==
    /\ pc = "loop"
    /\ i <= Len(tree)
    /\ ~tree[i].dir
    /\ ~Skip(PathParts(i))
    /\ tree[i].err # "none"
    /\ opened' = opened \cup { PathParts(i) }
    /\ out' = (IF problems_found = 0 THEN Append(out, Header) ELSE out)
                  \o << PathStr(PathParts(i)) >>
    /\ problems_found' = problems_found + 1
    /\ i' = i + 1
    /\ UNCHANGED <<root, tree, pc, ret, exitCode, run, history>>

\* open() or readline() raises: nothing catches it, the exception leaves
\* check
ReadFail ==
    /\ pc = "loop"
    /\ i <= Len(tree)
    /\ ~tree[i].dir
    /\ ~Skip(PathParts(i))
    /\ tree[i].err # "none"
    /\ opened' = opened \cup { PathParts(i) }
    /\ pc' = "raised"
    /\ UNCHANGED <<root, tree, i, problems_found, out, ret, exitCode, run, history>>

\* the mutant: one violation is let through
ReturnMoreThanOne ==
    /\ pc = "loop"
    /\ i > Len(tree)
    /\ ret' = << problems_found > 1 >>
    /\ pc' = "returned"
    /\ UNCHANGED <<root, tree, i, problems_found, out, opened, exitCode, run, history>>

\* return problems_found != 0
Return ==
    /\ pc = "loop"
    /\ i > Len(tree)
    /\ ret' = << problems_found # 0 >>
    /\ pc' = "returned"
    /\ UNCHANGED <<root, tree, i, problems_found, out, opened, exitCode, run, history>>

\* the mutant: the usual truth-to-status mapping, true is success
StatusInverted(b) == IF b THEN 0 ELSE 1

\* the exit status sys.exit gives a bool: the bool as an integer
ExitStatus(b) == IF b THEN 1 ELSE 0

\* sys.exit(<the value check returned>)
Exit ==
    /\ pc = "returned"
    /\ exitCode' = ExitStatus(ret[1])
    /\ pc' = "exited"
    /\ UNCHANGED <<root, tree, i, problems_found, out, opened, ret, run, history>>

\* the exception reaches the top level: the interpreter ends the process
\* with status 1, sys.exit is never called
Crash ==
    /\ pc = "raised"
    /\ exitCode' = 1
    /\ pc' = "crashed"
    /\ UNCHANGED <<root, tree, i, problems_found, out, opened, ret, run, history>>

Next ==
    \/ CallCheck
    \/ SkipDir
    \/ SkipIgnored
    \/ CheckFile
    \/ ReadFail
    \/ Return
    \/ Exit
    \/ Crash

Spec == Init /\ [][Next]_vars

(***************************************************************************)
(* The vocabulary of the properties, stated apart from the definitions     *)
(* above.                                                                  *)
(***************************************************************************)
IgnoreTokens ==
    { ".git", ".gitmodules", ".gitignore", "LICENSE", "zig-out", ".zig-cache",
      "third-party" }

Marker == "SPDX-License-Identifier: "

HeaderLine == "Files found without \"SPDX-License-Identifier: \" in the first line:"

\* the path of the k-th entry as the traversal produces it
FullPath(k) == root \o tree[k].rel

HasTokenSegment(parts) == \E j \in DOMAIN parts : parts[j] \in IgnoreTokens

\* a segment that holds a token as a proper substring
HasTokenInsideSegment(parts) ==
    \E j \in DOMAIN parts : \E t \in IgnoreTokens :
        /\ parts[j] # t
        /\ \E a \in 1..Len(parts[j]) : StartsWith(SubSeq(parts[j], a, Len(parts[j])), t)

Checkable(k) == ~tree[k].dir /\ ~HasTokenSegment(FullPath(k))

\* the lines of a text, without their terminators "\n", "\r\n" or "\r"
RECURSIVE SpecLines(_)
SpecLines(s) ==
    IF s = "" THEN << >>
    ELSE LET ends == { e \in 1..Len(s) : SubSeq(s, e, e) \in {"\n", "\r"} } IN
         IF ends = {} THEN << s >>
         ELSE LET e == CHOOSE x \in ends : \A y \in ends : x <= y
                  crlf == /\ e < Len(s)
                          /\ SubSeq(s, e, e + 1) = "\r\n"
                  rest == SubSeq(s, (IF crlf THEN e + 2 ELSE e + 1), Len(s))
              IN  << SubSeq(s, 1, e - 1) >> \o SpecLines(rest)

NthLine(s, n) == IF Len(SpecLines(s)) >= n THEN SpecLines(s)[n] ELSE ""

IsShebang(line) == Len(line) >= 2 /\ SubSeq(line, 1, 2) = "#!"

\* the first line, or the second one when the first is a shebang line
LineUnderTest(s) == IF IsShebang(NthLine(s, 1)) THEN NthLine(s, 2) ELSE NthLine(s, 1)

HasMarker(line) ==
    \E a \in 1..Len(line) : StartsWith(SubSeq(line, a, Len(line)), Marker)

\* the texts whose line under test lacks the marker
ViolatingContents == { c \in Contents : ~HasMarker(LineUnderTest(c)) }

IsViolation(k) == tree[k].content \in ViolatingContents

\* the loop of the current call is through with the k-th entry
Done(k) == k \in 1..Len(tree) /\ k < i

Printed(k) == \E j \in DOMAIN out : out[j] = PathStr(FullPath(k))

Finished == pc \in {"returned", "exited"}

\* the printed paths of the violating checkable files among the first n
\* entries, in traversal order
RECURSIVE ViolationPaths(_)
ViolationPaths(n) ==
    IF n <= 0 THEN << >>
    ELSE ViolationPaths(n - 1) \o
         (IF Checkable(n) /\ IsViolation(n) THEN << PathStr(FullPath(n)) >> ELSE << >>)

Unreadable(k) == Checkable(k) /\ tree[k].err # "none"

(***************************************************************************)
(* C1: check returns true if and only if at least one checkable file is a  *)
(* violation, and false when every checkable file passes or there is none. *)
(***************************************************************************)
C1_ReturnsTrueIffViolation ==
    Finished =>
        (ret[1] <=> \E k \in 1..Len(tree) : Checkable(k) /\ IsViolation(k))

C1_Witness ==
    /\ pc = "returned"
    /\ ret[1]
    /\ \E k \in 1..Len(tree) : Checkable(k) /\ IsViolation(k)
    /\ \E k \in 1..Len(tree) : Checkable(k) /\ ~IsViolation(k)

(***************************************************************************)
(* C2: a checkable file is reported if and only if the marker does not     *)
(* occur in its line under test: its first line, or its second line when   *)
(* the first starts with "#!".                                             *)
(***************************************************************************)
C2_ViolationIffLineLacksMarker ==
    \A k \in 1..Len(tree) :
        Done(k) /\ Checkable(k) =>
            (Printed(k) <=> IsViolation(k))

\* a shebang file with the marker on its third line only is reported, next
\* to a shebang file with the marker on its second line, which is not
C2_Witness ==
    /\ \E k \in 1..Len(tree) :
           /\ Done(k) /\ Checkable(k) /\ Printed(k)
           /\ IsShebang(NthLine(tree[k].content, 1))
           /\ ~HasMarker(NthLine(tree[k].content, 2))
           /\ HasMarker(NthLine(tree[k].content, 3))
    /\ \E k \in 1..Len(tree) :
           /\ Done(k) /\ Checkable(k) /\ ~Printed(k)
           /\ IsShebang(NthLine(tree[k].content, 1))
           /\ HasMarker(NthLine(tree[k].content, 2))

(***************************************************************************)
(* C3: a file whose path has a segment equal to an ignore token is never   *)
(* opened, never printed and never counted: the counter counts the         *)
(* violations among the other files only.                                  *)
(***************************************************************************)
C3_IgnoredNeverReadNorReported ==
    /\ \A k \in 1..Len(tree) :
           ~tree[k].dir /\ HasTokenSegment(FullPath(k)) =>
               FullPath(k) \notin opened /\ ~Printed(k)
    /\ problems_found =
           Cardinality({ k \in 1..Len(tree) : Done(k) /\ Checkable(k) /\ IsViolation(k) })

\* an ignored file without the marker was passed over, another was reported
C3_Witness ==
    /\ ~HasTokenSegment(root)
    /\ \E k \in 1..Len(tree) :
           /\ Done(k) /\ ~tree[k].dir /\ HasTokenSegment(FullPath(k))
           /\ IsViolation(k)
    /\ \E k \in 1..Len(tree) : Done(k) /\ Printed(k)

(***************************************************************************)
(* C4: the filter matches whole segments: a file the loop came to was left *)
(* unopened if and only if a segment of its path equals an ignore token; a *)
(* segment that merely contains a token does not exempt the file.          *)
(***************************************************************************)
C4_SkippedIffSegmentEqualsToken ==
    \A k \in 1..Len(tree) :
        ~tree[k].dir /\ (Done(k) \/ (k = i /\ pc \in {"raised", "crashed"})) =>
            (FullPath(k) \notin opened <=> HasTokenSegment(FullPath(k)))

C4_Witness ==
    \E k \in 1..Len(tree) :
        /\ Done(k) /\ ~tree[k].dir
        /\ HasTokenInsideSegment(FullPath(k))
        /\ ~HasTokenSegment(FullPath(k))
        /\ FullPath(k) \in opened
        /\ Printed(k)

(***************************************************************************)
(* C5: standard output is empty, or one header line followed by the path   *)
(* of every violating file found so far, once each, in traversal order;    *)
(* the header occurs nowhere else.                                         *)
(***************************************************************************)
C5_OneHeaderThenPathsInOrder ==
    LET paths == ViolationPaths(IF i > 0 THEN i - 1 ELSE 0) IN
    /\ out = (IF paths = << >> THEN << >> ELSE << HeaderLine >> \o paths)
    /\ \A j \in DOMAIN out : j > 1 => out[j] # HeaderLine
    /\ \A a, b \in DOMAIN out : a # b => out[a] # out[b]

C5_Witness ==
    /\ pc = "returned"
    /\ Len(out) = 3
    /\ out[1] = HeaderLine

(***************************************************************************)
(* C6: a checkable file with no line to test, an empty file or a file made *)
(* of a shebang line alone, has the empty string as its line under test    *)
(* and is reported and counted.                                            *)
(***************************************************************************)
NoLineContents ==
    { c \in Contents : c = "" \/ (Len(SpecLines(c)) = 1 /\ IsShebang(SpecLines(c)[1])) }

NoLineToTest(s) == s \in NoLineContents

C6_NoLineIsViolation ==
    \A k \in 1..Len(tree) :
        Done(k) /\ Checkable(k) /\ NoLineToTest(tree[k].content) =>
            /\ first_line(tree[k].content) = ""
            /\ Printed(k)
            /\ problems_found >= 1
            /\ Finished => ret[1]

C6_Witness ==
    /\ \E k \in 1..Len(tree) :
           Done(k) /\ Checkable(k) /\ tree[k].content = "" /\ Printed(k)
    /\ \E k \in 1..Len(tree) :
           /\ Done(k) /\ Checkable(k) /\ Printed(k)
           /\ tree[k].content # "" /\ NoLineToTest(tree[k].content)

(***************************************************************************)
(* C7: after a normal completion the exit code is 0 if and only if no      *)
(* checkable file is a violation, and 1 if and only if one is.             *)
(***************************************************************************)
C7_ExitCodeIsVerdict ==
    pc = "exited" =>
        LET found == \E k \in 1..Len(tree) : Checkable(k) /\ IsViolation(k) IN
        /\ exitCode = 0 <=> ~found
        /\ exitCode = 1 <=> found
        /\ exitCode # 0 <=> Len(out) > 0

C7_Witness ==
    /\ pc = "exited"
    /\ exitCode = 1
    /\ Len(out) >= 2

(***************************************************************************)
(* C8: a checkable file that cannot be opened or read ends the run: the    *)
(* loop never gets past it, it is not printed, check returns nothing, and  *)
(* no later file is opened or printed.                                     *)
(***************************************************************************)
C8_ReadFailureIsFatal ==
    \A k \in 1..Len(tree) :
        Unreadable(k) /\ pc # "main" =>
            /\ i <= k
            /\ ~Printed(k)
            /\ ret = << >>
            /\ pc \in {"loop", "raised", "crashed"}
            /\ FullPath(k) \in opened => i = k /\ pc \in {"raised", "crashed"}
            /\ \A m \in (k + 1)..Len(tree) :
                   FullPath(m) \notin opened /\ (~tree[m].dir => ~Printed(m))

\* the run broke off before a file that would have been a violation
C8_Witness ==
    /\ pc = "crashed"
    /\ out = << >>
    /\ Unreadable(i)
    /\ FullPath(i) \in opened
    /\ \E m \in (i + 1)..Len(tree) : Checkable(m) /\ tree[m].err = "none" /\ IsViolation(m)

(***************************************************************************)
(* C9: a call of check that follows completed calls on the same tree       *)
(* prints what they printed and returns what they returned, and no step    *)
(* changes the tree.                                                       *)
(***************************************************************************)
C9_Idempotent ==
    [][ /\ tree' = tree
        /\ root' = root
        /\ pc' = "returned" =>
               \A h \in DOMAIN history' :
                   history'[h] = [out |-> out', ret |-> ret'[1]] ]_vars

C9_Witness ==
    /\ pc = "returned"
    /\ Len(history) >= 1
    /\ Len(out) = 3
    /\ history[1].out = out
    /\ history[1].ret

(***************************************************************************)
(* C10: the filter sees root's own segments: when one of them equals an    *)
(* ignore token, no file is opened, nothing is printed and check returns   *)
(* false, whatever the files hold.                                         *)
(***************************************************************************)
C10_IgnoredRootSkipsAll ==
    HasTokenSegment(root) =>
        /\ opened = {}
        /\ out = << >>
        /\ problems_found = 0
        /\ ret # << >> => ~ret[1]
        /\ pc \notin {"raised", "crashed"}

C10_Witness ==
    /\ HasTokenSegment(root)
    /\ pc = "returned"
    /\ ~ret[1]
    /\ \E k \in 1..Len(tree) :
           /\ ~tree[k].dir /\ IsViolation(k)
           /\ ~HasTokenSegment(tree[k].rel)

====
